---- MODULE Spec2Model ----
(***************************************************************************)
(* State-machine model of src/main.cc: a host program that adds two float *)
(* arrays on a Metal compute device, times the round trip and verifies    *)
(* the result on the CPU.                                                  *)
(*                                                                         *)
(* Scaling.  The program works on 2^24 elements of IEEE single precision   *)
(* (24 significand bits) filled from rand() in 0..2^31-1.  The model keeps *)
(* the shape and shrinks the widths: ArrayLength elements, floats with     *)
(* MantBits significand bits, rand() in 0..2^RandBits-1.  As on the real   *)
(* platform RandBits > MantBits, so RAND_MAX itself is not representable.  *)
(***************************************************************************)
EXTENDS Integers, Sequences, FiniteSets

\* ---------------------------------------------------------------- bounds
\* number of array elements (2^24 in the program)
ArrayLength == 3
\* rand() returns RandBits-bit values (31 on the platform)
RandBits == 6
\* significand width of float (24 in the program)
MantBits == 3
\* the largest maxTotalThreadsPerThreadgroup the pipeline may report
MaxThreadsPerThreadgroup == 4

\* ---------------------------------------------------- float arithmetic
RECURSIVE Pow2(_)
Pow2(n) == IF n = 0 THEN 1 ELSE 2 * Pow2(n - 1)

RECURSIVE BitLen(_)
BitLen(n) == IF n = 0 THEN 0 ELSE 1 + BitLen(n \div 2)

RAND_MAX == Pow2(RandBits) - 1

\* Buffer elements are floats in fixed point: the integer n stands for the
\* float n / Unit.  Every value the program stores is such a multiple.
Unit == Pow2(RandBits)

\* The float nearest to num/den: MantBits significant bits, round to nearest,
\* ties to even; the result is an integer (the spacing never drops below 1).
RoundRatio(num, den) ==
    LET whole == num \div den
        k     == BitLen(whole)
        step  == IF k <= MantBits THEN 1 ELSE Pow2(k - MantBits)
        d     == den * step
        q     == num \div d
        rem   == num % d
        up    == (2 * rem > d) \/ (2 * rem = d /\ q % 2 = 1)
    IN  (IF up THEN q + 1 ELSE q) * step

\* (float)n for a non-negative integer n
ToFloat(n) == RoundRatio(n, 1)

\* x / y on floats holding the integers x and y; the quotient in fixed point
FloatDiv(x, y) == RoundRatio(x * Unit, y)

\* x + y on floats in fixed point
FloatAdd(x, y) == RoundRatio(x + y, 1)

\* the value generateRandomFloatData stores for rand() = r, with the divisor
\* a bug would use: RAND_MAX / 2
RandomFloatHalfDivisor(r) == FloatDiv(ToFloat(r), ToFloat(RAND_MAX \div 2))

\* (float)rand() / (float)(RAND_MAX) for rand() = r
RandomFloat(r) == FloatDiv(ToFloat(r), ToFloat(RAND_MAX))

\* the values rand() returns in the runs of the whole program
RandDraws == {0, 1, RAND_MAX}

\* ---------------------------------------------------------------- state
Objects == {"device", "defaultLibrary", "addFunction", "mAddFunctionPSO",
            "mCommandQueue", "mBufferA", "mBufferB", "mBufferResult",
            "commandBuffer", "computeEncoder", "pAutoreleasePool"}

\* the objects the harness holds in its members
HarnessObjects == {"device", "mAddFunctionPSO", "mCommandQueue",
                   "mBufferA", "mBufferB", "mBufferResult"}

\* objects returned autoreleased: the pool holds their only reference
Autoreleased == {"commandBuffer", "computeEncoder"}

Indices == 0 .. (ArrayLength - 1)

\* the contents() of a buffer that was not allocated
NoBuffer == [i \in {} |-> 0]

\* a fresh buffer: newBuffer hands out zero-filled storage
ZeroBuffer == [i \in Indices |-> 0]

VARIABLES
    pc,            \* the host thread's position
    assertLine,    \* source line of the assertion that failed, 0 if none
    ptr,           \* per object: "unset", "null" or "valid"
    rc,            \* per object: retain count
    bufA, bufB, bufResult,   \* contents of the three buffers
    index,         \* loop counter of generateRandomFloatData / verifyResults
    maxThreads,    \* maxTotalThreadsPerThreadgroup of the pipeline state
    threadGroupSize,  \* the size handed to dispatchThreads, 0 before
    dispatched,    \* the threads of the dispatch: <<group, thread in group>>
    pending,       \* dispatched threads the device has not run yet
    invCount,      \* per index: kernel invocations run for it
    cbStatus,      \* command buffer: "none", "committed", "completed", "error"
    log            \* the steps of the run, in the order they happened

vars == <<pc, assertLine, ptr, rc, bufA, bufB, bufResult, index, maxThreads,
          threadGroupSize, dispatched, pending, invCount, cbStatus, log>>

Init ==
    /\ pc = "main"
    /\ assertLine = 0
    /\ ptr = [o \in Objects |-> "unset"]
    /\ rc = [o \in Objects |-> 0]
    /\ bufA = NoBuffer
    /\ bufB = NoBuffer
    /\ bufResult = NoBuffer
    /\ index = 0
    /\ maxThreads = 0
    /\ threadGroupSize = 0
    /\ dispatched = {}
    /\ pending = {}
    /\ invCount = [i \in Indices |-> 0]
    /\ cbStatus = "none"
    /\ log = <<>>

\* assert(p != nullptr) at source line `line` failed: abort()
AssertFail(line) ==
    /\ pc' = "aborted"
    /\ assertLine' = line

\* a creation call of the API: it returns an object holding one reference,
\* or null
Created(o, ok) ==
    /\ ptr' = [ptr EXCEPT ![o] = IF ok THEN "valid" ELSE "null"]
    /\ rc' = [rc EXCEPT ![o] = IF ok THEN 1 ELSE 0]

\* main: the autorelease pool and MTL::CreateSystemDefaultDevice(), which
\* returns null on a machine without a Metal device
CreateSystemDefaultDevice ==
    /\ pc = "main"
    /\ \E ok \in BOOLEAN :
          /\ ptr' = [ptr EXCEPT !["pAutoreleasePool"] = "valid",
                                !["device"] = IF ok THEN "valid" ELSE "null"]
          /\ rc' = [rc EXCEPT !["pAutoreleasePool"] = 1,
                              !["device"] = IF ok THEN 1 ELSE 0]
    /\ pc' = "ctor_retain"
    /\ log' = Append(log, "device")
    /\ UNCHANGED <<assertLine, bufA, bufB, bufResult, index, maxThreads,
                   threadGroupSize, dispatched, pending, invCount, cbStatus>>

\* MetalAdder::MetalAdder, member initialiser: _mDevice(device->retain()).
\* On a null device the member call is undefined: the message to nil returns
\* nil and the constructor goes on, or the process faults.
CtorRetain ==
    /\ pc = "ctor_retain"
    /\ \/ /\ ptr["device"] = "valid"
          /\ rc' = [rc EXCEPT !["device"] = @ + 1]
          /\ pc' = "ctor_library"
       \/ /\ ptr["device"] = "null"
          /\ pc' \in {"ctor_library", "crashed"}
          /\ UNCHANGED rc
    /\ UNCHANGED <<assertLine, ptr, bufA, bufB, bufResult, index, maxThreads,
                   threadGroupSize, dispatched, pending, invCount, cbStatus,
                   log>>

\* a creation call followed by its assert: object o is made from object
\* `from`; a null `from` (a message to nil) yields null
CreateAndAssert(at, o, from, line, next) ==
    /\ pc = at
    /\ \E ok \in BOOLEAN :
          /\ ok => ptr[from] = "valid"
          /\ Created(o, ok)
          /\ IF ok THEN pc' = next /\ assertLine' = assertLine
                   ELSE AssertFail(line)

\* MetalAdder::MetalAdder: newLibrary from the embedded source, and its assert
CtorNewLibrary ==
    /\ CreateAndAssert("ctor_library", "defaultLibrary", "device", 48,
                       "ctor_function")
    /\ log' = Append(log, "library")
    /\ UNCHANGED <<bufA, bufB, bufResult, index, maxThreads, threadGroupSize,
                   dispatched, pending, invCount, cbStatus>>

\* MetalAdder::MetalAdder: newFunction("add_arrays") and its assert
CtorNewFunction ==
    /\ CreateAndAssert("ctor_function", "addFunction", "defaultLibrary", 52,
                       "ctor_pso")
    /\ log' = Append(log, "function")
    /\ UNCHANGED <<bufA, bufB, bufResult, index, maxThreads, threadGroupSize,
                   dispatched, pending, invCount, cbStatus>>

\* MetalAdder::MetalAdder: newComputePipelineState and its assert; the pipeline state reports its
\* maxTotalThreadsPerThreadgroup
CtorNewPSO ==
    /\ CreateAndAssert("ctor_pso", "mAddFunctionPSO", "addFunction", 55,
                       "ctor_queue")
    /\ log' = Append(log, "pipeline")
    /\ IF pc' = "ctor_queue"
          THEN maxThreads' \in 1 .. MaxThreadsPerThreadgroup
          ELSE maxThreads' = maxThreads
    /\ UNCHANGED <<bufA, bufB, bufResult, index, threadGroupSize, dispatched,
                   pending, invCount, cbStatus>>

\* MetalAdder::MetalAdder: newCommandQueue and its assert
CtorNewQueue ==
    /\ CreateAndAssert("ctor_queue", "mCommandQueue", "device", 58,
                       "ctor_release")
    /\ log' = Append(log, "queue")
    /\ UNCHANGED <<bufA, bufB, bufResult, index, maxThreads, threadGroupSize,
                   dispatched, pending, invCount, cbStatus>>

\* addFunction->release(); defaultLibrary->release();
CtorRelease ==
    /\ pc = "ctor_release"
    /\ rc' = [rc EXCEPT !["addFunction"] = @ - 1, !["defaultLibrary"] = @ - 1]
    /\ pc' = "prepare"
    /\ UNCHANGED <<assertLine, ptr, bufA, bufB, bufResult, index, maxThreads,
                   threadGroupSize, dispatched, pending, invCount, cbStatus,
                   log>>

\* MetalAdder::prepareData, the three newBuffer calls; each may return null
PrepareData ==
    /\ pc = "prepare"
    /\ \E okA, okB, okR \in BOOLEAN :
          /\ ptr' = [ptr EXCEPT !["mBufferA"] = IF okA THEN "valid" ELSE "null",
                                !["mBufferB"] = IF okB THEN "valid" ELSE "null",
                                !["mBufferResult"] =
                                    IF okR THEN "valid" ELSE "null"]
          /\ rc' = [rc EXCEPT !["mBufferA"] = IF okA THEN 1 ELSE 0,
                              !["mBufferB"] = IF okB THEN 1 ELSE 0,
                              !["mBufferResult"] = IF okR THEN 1 ELSE 0]
          /\ bufA' = IF okA THEN ZeroBuffer ELSE NoBuffer
          /\ bufB' = IF okB THEN ZeroBuffer ELSE NoBuffer
          /\ bufResult' = IF okR THEN ZeroBuffer ELSE NoBuffer
    /\ pc' = "genA"
    /\ index' = 0
    /\ log' = Append(log, "buffers")
    /\ UNCHANGED <<assertLine, maxThreads, threadGroupSize, dispatched,
                   pending, invCount, cbStatus>>

\* the steps of sendComputeCommand in the order a reordering bug would give:
\* verifyResults before the two printf calls
SendComputeCommandVerifyFirst ==
    <<"send_cb", "send_enc", "encode", "commit", "wait", "verify", "report">>

\* the steps of MetalAdder::sendComputeCommand, in source order
SendComputeCommandSteps ==
    <<"send_cb", "send_enc", "encode", "commit", "wait", "report", "verify">>

\* the position after step s of sendComputeCommand; after the last one the
\* block in main ends and the harness is destroyed
StepAfter(s) ==
    LET steps == SendComputeCommandSteps
        k == CHOOSE j \in DOMAIN steps : steps[j] = s
    IN  IF k = Len(steps) THEN "dtor" ELSE steps[k + 1]

\* the buffer generateRandomFloatData is filling
GenBuffer == IF pc = "genA" THEN "mBufferA" ELSE "mBufferB"

\* generateRandomFloatData, one iteration of its loop with rand() drawn from
\* R: dataPtr[index] = (float)rand() / (float)(RAND_MAX)
GenerateRandomFloatData(R) ==
    /\ pc \in {"genA", "genB"}
    /\ ptr[GenBuffer] = "valid"
    /\ \E r \in R :
          IF pc = "genA"
             THEN bufA' = [bufA EXCEPT ![index] = RandomFloat(r)] /\ bufB' = bufB
             ELSE bufB' = [bufB EXCEPT ![index] = RandomFloat(r)] /\ bufA' = bufA
    /\ index' = IF index + 1 < ArrayLength THEN index + 1 ELSE 0
    /\ pc' = IF index + 1 < ArrayLength THEN pc
             ELSE IF pc = "genA" THEN "genB"
             ELSE SendComputeCommandSteps[1]
    /\ log' = IF pc = "genA" /\ index = 0 THEN Append(log, "random") ELSE log
    /\ UNCHANGED <<assertLine, ptr, rc, bufResult, maxThreads,
                   threadGroupSize, dispatched, pending, invCount, cbStatus>>

\* generateRandomFloatData on a buffer that was not allocated: contents() is
\* null and the first store faults
GenerateNullBuffer ==
    /\ pc \in {"genA", "genB"}
    /\ ptr[GenBuffer] = "null"
    /\ pc' = "crashed"
    /\ log' = IF pc = "genA" THEN Append(log, "random") ELSE log
    /\ UNCHANGED <<assertLine, ptr, rc, bufA, bufB, bufResult, index,
                   maxThreads, threadGroupSize, dispatched, pending, invCount,
                   cbStatus>>

\* sendComputeCommand: _mCommandQueue->commandBuffer() and its assert
SendCommandBuffer ==
    /\ CreateAndAssert("send_cb", "commandBuffer", "mCommandQueue", 82,
                       StepAfter("send_cb"))
    /\ UNCHANGED <<bufA, bufB, bufResult, index, maxThreads, threadGroupSize,
                   dispatched, pending, invCount, cbStatus, log>>

\* sendComputeCommand: commandBuffer->computeCommandEncoder() and its assert
SendEncoder ==
    /\ CreateAndAssert("send_enc", "computeEncoder", "commandBuffer", 86,
                       StepAfter("send_enc"))
    /\ UNCHANGED <<bufA, bufB, bufResult, index, maxThreads, threadGroupSize,
                   dispatched, pending, invCount, cbStatus, log>>

\* a grid one element short of the arrays
gridSizeShort == ArrayLength - 1

\* MTL::Size::Make(arrayLength, 1, 1)
gridSize == ArrayLength

\* the thread-group size without the clamp to arrayLength
ThreadGroupSizeUnclamped(maxTotal) == maxTotal

\* encodeAddCommand: the thread-group size from the pipeline's maximum
ThreadGroupSize(maxTotal) ==
    IF maxTotal > ArrayLength THEN ArrayLength ELSE maxTotal

\* dispatchThreads(grid, tg): thread groups of tg threads tile the grid, the
\* last group cut off at the grid's edge; a thread is <<group, thread in group>>
DispatchThreads(grid, tg) ==
    LET groups == (grid + tg - 1) \div tg
    IN  {th \in (0 .. (groups - 1)) \X (0 .. (tg - 1)) :
            th[1] * tg + th[2] < grid}

\* thread_position_in_grid of thread th
ThreadPosition(th) == th[1] * threadGroupSize + th[2]

\* encodeAddCommand and endEncoding
EncodeAddCommand ==
    /\ pc = "encode"
    /\ threadGroupSize' = ThreadGroupSize(maxThreads)
    /\ dispatched' = DispatchThreads(gridSize, threadGroupSize')
    /\ pc' = StepAfter("encode")
    /\ log' = Append(log, "encode")
    /\ UNCHANGED <<assertLine, ptr, rc, bufA, bufB, bufResult, index,
                   maxThreads, pending, invCount, cbStatus>>

\* commandBuffer->commit()
Commit ==
    /\ pc = "commit"
    /\ cbStatus' = "committed"
    /\ pending' = dispatched
    /\ pc' = StepAfter("commit")
    /\ log' = Append(log, "commit")
    /\ UNCHANGED <<assertLine, ptr, rc, bufA, bufB, bufResult, index,
                   maxThreads, threadGroupSize, dispatched, invCount>>

\* a kernel that stores every sum into element 0
add_arrays_first(inA, inB, result, i) ==
    [result EXCEPT ![0] = FloatAdd(inA[i], inB[i])]

\* kernel add_arrays: result[index] = inA[index] + inB[index]
add_arrays(inA, inB, result, i) ==
    [result EXCEPT ![i] = FloatAdd(inA[i], inB[i])]

\* the device runs one thread of the dispatch; the threads run in any order,
\* and the command buffer completes with the last of them
KernelInvoke ==
    /\ cbStatus = "committed"
    /\ ptr["mBufferResult"] = "valid"
    /\ \E th \in pending :
          /\ bufResult' = add_arrays(bufA, bufB, bufResult, ThreadPosition(th))
          /\ invCount' = [invCount EXCEPT ![ThreadPosition(th)] = @ + 1]
          /\ pending' = pending \ {th}
    /\ cbStatus' = IF pending' = {} THEN "completed" ELSE "committed"
    /\ UNCHANGED <<pc, assertLine, ptr, rc, bufA, bufB, index, maxThreads,
                   threadGroupSize, dispatched, log>>

\* the device gives the command buffer up (a fault, a timeout, a store
\* through an unallocated Result): the threads still pending never run
DeviceFault ==
    /\ cbStatus = "committed"
    /\ cbStatus' = "error"
    /\ pending' = {}
    /\ UNCHANGED <<pc, assertLine, ptr, rc, bufA, bufB, bufResult, index,
                   maxThreads, threadGroupSize, dispatched, invCount, log>>

\* a wait that returns as soon as the command buffer was committed
CommandBufferCommitted == cbStatus # "none"

\* waitUntilCompleted returns once the command buffer completed or failed
CommandBufferFinished == cbStatus \in {"completed", "error"}

\* commandBuffer->waitUntilCompleted()
WaitUntilCompleted ==
    /\ pc = "wait"
    /\ CommandBufferFinished
    /\ pc' = StepAfter("wait")
    /\ log' = Append(log, "wait")
    /\ UNCHANGED <<assertLine, ptr, rc, bufA, bufB, bufResult, index,
                   maxThreads, threadGroupSize, dispatched, pending, invCount,
                   cbStatus>>

\* the two printf calls: elapsed milliseconds and bandwidth
Report ==
    /\ pc = "report"
    /\ pc' = StepAfter("report")
    /\ log' = Append(log, "report")
    /\ UNCHANGED <<assertLine, ptr, rc, bufA, bufB, bufResult, index,
                   maxThreads, threadGroupSize, dispatched, pending, invCount,
                   cbStatus>>

\* a comparison that only catches a result above the sum
MismatchAbove(i) == bufResult[i] > FloatAdd(bufA[i], bufB[i])

\* verifyResults: result[index] != (a[index] + b[index])
Mismatch(i) == bufResult[i] # FloatAdd(bufA[i], bufB[i])

\* a loop that stops one element early
VerifyLimitShort == ArrayLength - 1

\* verifyResults: the loop runs while index < arrayLength
VerifyLimit == ArrayLength

\* verifyResults, one iteration: a mismatch prints the error line and fails
\* the assert
VerifyResults ==
    /\ pc = "verify"
    /\ ptr["mBufferResult"] = "valid"
    /\ IF index < VerifyLimit /\ Mismatch(index)
          THEN AssertFail(136) /\ index' = index
          ELSE /\ index' = IF index < VerifyLimit THEN index + 1 ELSE index
               /\ pc' = IF index' < VerifyLimit THEN pc ELSE StepAfter("verify")
               /\ assertLine' = assertLine
    /\ log' = IF index = 0 THEN Append(log, "verify") ELSE log
    /\ UNCHANGED <<ptr, rc, bufA, bufB, bufResult, maxThreads,
                   threadGroupSize, dispatched, pending, invCount, cbStatus>>

\* verifyResults on a Result buffer that was not allocated: the first read
\* faults
VerifyNullBuffer ==
    /\ pc = "verify"
    /\ ptr["mBufferResult"] = "null"
    /\ pc' = "crashed"
    /\ log' = Append(log, "verify")
    /\ UNCHANGED <<assertLine, ptr, rc, bufA, bufB, bufResult, index,
                   maxThreads, threadGroupSize, dispatched, pending, invCount,
                   cbStatus>>

\* MetalAdder::~MetalAdder: releases the queue, the pipeline state and the
\* device
Destructor ==
    /\ pc = "dtor"
    /\ rc' = [rc EXCEPT !["mCommandQueue"] = @ - 1,
                        !["mAddFunctionPSO"] = @ - 1,
                        !["device"] = @ - 1]
    /\ pc' = "pool"
    /\ log' = Append(log, "destroy")
    /\ UNCHANGED <<assertLine, ptr, bufA, bufB, bufResult, index, maxThreads,
                   threadGroupSize, dispatched, pending, invCount, cbStatus>>

\* main: pAutoreleasePool->release() drops the autoreleased objects; return 0
PoolRelease ==
    /\ pc = "pool"
    /\ rc' = [o \in Objects |->
                IF o \in Autoreleased \union {"pAutoreleasePool"}
                   THEN 0 ELSE rc[o]]
    /\ pc' = "done"
    /\ UNCHANGED <<assertLine, ptr, bufA, bufB, bufResult, index, maxThreads,
                   threadGroupSize, dispatched, pending, invCount, cbStatus,
                   log>>

Next ==
    \/ CreateSystemDefaultDevice
    \/ CtorRetain
    \/ CtorNewLibrary
    \/ CtorNewFunction
    \/ CtorNewPSO
    \/ CtorNewQueue
    \/ CtorRelease
    \/ PrepareData
    \/ GenerateRandomFloatData(RandDraws)
    \/ GenerateNullBuffer
    \/ SendCommandBuffer
    \/ SendEncoder
    \/ EncodeAddCommand
    \/ Commit
    \/ KernelInvoke
    \/ DeviceFault
    \/ WaitUntilCompleted
    \/ Report
    \/ VerifyResults
    \/ VerifyNullBuffer
    \/ Destructor
    \/ PoolRelease

Spec == Init /\ [][Next]_vars

\* ------------------------------------------------ generateRandomFloatData
\* The last iteration of prepareData's second fill, for every value rand()
\* can return.  The elements filled before it hold values the runs of Spec
\* store.
StoredDraws == {RandomFloat(r) : r \in RandDraws}

InitRand ==
    /\ pc = "genB"
    /\ assertLine = 0
    /\ ptr = [o \in Objects |->
                IF o \in Autoreleased THEN "unset" ELSE "valid"]
    /\ rc = [o \in Objects |->
                IF o \in Autoreleased \union {"defaultLibrary", "addFunction"}
                   THEN 0
                   ELSE IF o = "device" THEN 2 ELSE 1]
    /\ bufA \in [Indices -> StoredDraws]
    /\ bufB \in {b \in [Indices -> StoredDraws \union {0}] :
                    b[ArrayLength - 1] = 0}
    /\ bufResult = ZeroBuffer
    /\ index = ArrayLength - 1
    /\ maxThreads = 1
    /\ threadGroupSize = 0
    /\ dispatched = {}
    /\ pending = {}
    /\ invCount = [i \in Indices |-> 0]
    /\ cbStatus = "none"
    /\ log = <<"device", "library", "function", "pipeline", "queue",
               "buffers", "random">>

NextRand == GenerateRandomFloatData(0 .. RAND_MAX)

SpecRand == InitRand /\ [][NextRand]_vars

\* ---------------------------------------------------------------- claims
InLog(e) == \E k \in DOMAIN log : log[k] = e

PrepareDone == pc \in {"send_cb", "send_enc", "encode", "commit", "wait",
                       "report", "verify", "dtor", "pool", "done"}

Sum(i) == FloatAdd(bufA[i], bufB[i])

\* C1: when main returns 0, Result[i] = A[i] + B[i] (float addition) for
\* every index i, whatever values prepareData drew.
C1_AdditionCorrect ==
    pc = "done" => \A i \in Indices : bufResult[i] = Sum(i)

\* C1 witness: a run returned 0 with non-zero inputs whose sum had to be
\* rounded.
C1_Witness ==
    /\ pc = "done"
    /\ \E i \in Indices :
          /\ bufA[i] # 0 /\ bufB[i] # 0
          /\ bufResult[i] # bufA[i] + bufB[i]

\* C2: verification is exhaustive and fail-stop: with a mismatch at index j
\* the loop never gets past j, whichever index j is, so the run never leaves
\* verifyResults towards exit status 0; and the abort of line 136 happens at
\* a mismatching index.
C2_VerifyFailStop ==
    /\ \A j \in Indices :
          (/\ pc \in {"verify", "dtor", "pool", "done"}
           /\ bufResult # NoBuffer
           /\ bufResult[j] # Sum(j))
          => (pc = "verify" /\ index <= j)
    /\ (pc = "aborted" /\ assertLine = 136) => bufResult[index] # Sum(index)

\* C2 witness: the only mismatch is at the last index and the run aborted
\* there.
C2_Witness ==
    /\ pc = "aborted"
    /\ assertLine = 136
    /\ index = ArrayLength - 1
    /\ \A j \in 0 .. (ArrayLength - 2) : bufResult[j] = Sum(j)

\* the order of the steps as the claim states it
ClaimedOrder ==
    <<"device", "library", "pipeline", "buffers", "random", "encode",
      "commit", "wait", "verify", "report">>

\* the order with the timing report before the verification
ReportFirstOrder ==
    <<"device", "library", "pipeline", "buffers", "random", "encode",
      "commit", "wait", "report", "verify">>

\* the steps of `order` that happened are its first ones, in its order
LogFollows(order) ==
    LET Listed(e) == \E k \in DOMAIN order : order[k] = e
        done == SelectSeq(log, Listed)
    IN  /\ Len(done) <= Len(order)
        /\ \A k \in DOMAIN done : done[k] = order[k]

C4_AllReleased ==
    /\ pc \in {"pool", "done"} =>
          \A o \in HarnessObjects \ {"device"} : rc[o] = 0
    /\ pc = "done" => \A o \in Objects : rc[o] = 0

\* C5 as stated: every listed failure ends the process by the assertion of
\* its own step, and a null device ends it by assertion before anything is
\* attempted on it.
C5_FailStopAtStep ==
    /\ ptr["device"] = "null" =>
          /\ pc \in {"ctor_retain", "aborted"}
          /\ log = <<"device">>
    /\ \A o \in {"defaultLibrary", "addFunction", "mAddFunctionPSO",
                 "mCommandQueue", "commandBuffer", "computeEncoder"} :
          ptr[o] = "null" => pc = "aborted"

\* C6 as stated: after prepareData every element of A and B is in [0, 1).
C6_HalfOpenRange ==
    PrepareDone =>
       \A i \in Indices : /\ 0 <= bufA[i] /\ bufA[i] < Unit
                          /\ 0 <= bufB[i] /\ bufB[i] < Unit

\* C6 amended: after prepareData every element of A and B is in the closed
\* range [0, 1]; 1 is stored when (float)rand() rounds to (float)RAND_MAX.
C6_ClosedRange ==
    PrepareDone =>
       \A i \in Indices : /\ 0 <= bufA[i] /\ bufA[i] <= Unit
                          /\ 0 <= bufB[i] /\ bufB[i] <= Unit

\* C6 witness: prepareData finished and its last store is strictly inside
\* the range.
C6_Witness ==
    /\ PrepareDone
    /\ bufB[ArrayLength - 1] > 0
    /\ bufB[ArrayLength - 1] < Unit

\* C7: the thread-group size handed to dispatchThreads is at least 1 and at
\* most min(reported maximum, arrayLength).
C7_ThreadGroupBound ==
    InLog("encode") =>
       /\ threadGroupSize >= 1
       /\ threadGroupSize <= maxThreads
       /\ threadGroupSize <= ArrayLength

\* C7 witness: the pipeline reported more threads than there are elements
\* and the size was clamped.
C7_Witness ==
    /\ InLog("encode")
    /\ maxThreads > ArrayLength
    /\ threadGroupSize = ArrayLength

\* C8: the dispatch launches exactly one thread per index 0..arrayLength-1
\* and none beyond; no index is processed twice, and when the command buffer
\* completes every index was processed exactly once.
C8_ExactCover ==
    /\ InLog("encode") =>
          /\ {ThreadPosition(th) : th \in dispatched} = Indices
          /\ Cardinality(dispatched) = ArrayLength
    /\ \A i \in Indices : invCount[i] <= 1
    /\ cbStatus = "completed" => \A i \in Indices : invCount[i] = 1

\* C8 witness: a dispatch whose thread-group size does not divide the array
\* length ran to completion.
C8_Witness ==
    /\ cbStatus = "completed"
    /\ threadGroupSize > 1
    /\ ArrayLength % threadGroupSize # 0

\* C9: from commit until the command buffer has finished the host stays in
\* waitUntilCompleted and A and B do not change; while verifyResults runs no
\* invocation is pending and Result does not change.
C9_HostBlocks ==
    [][ /\ cbStatus = "committed" =>
              /\ pc = "wait" /\ pc' = "wait"
              /\ bufA' = bufA /\ bufB' = bufB
        /\ pc = "verify" =>
              /\ pending = {}
              /\ cbStatus \in {"completed", "error"}
              /\ bufResult' = bufResult ]_vars

\* C9 witness: the host waits while the device is part-way through the
\* dispatch.
C9_Witness ==
    /\ pc = "wait"
    /\ cbStatus = "committed"
    /\ pending # {}
    /\ pending # dispatched

\* C10: an allocated Result changes only by a kernel invocation, which
\* changes no element but the one of its index; A and B do not change after
\* prepareData.
C10_Frame ==
    [][ /\ (bufResult # NoBuffer /\ bufResult' # bufResult) =>
              /\ cbStatus = "committed"
              /\ \E i \in Indices :
                    /\ invCount' = [invCount EXCEPT ![i] = @ + 1]
                    /\ \A j \in Indices \ {i} : bufResult'[j] = bufResult[j]
        /\ PrepareDone => (bufA' = bufA /\ bufB' = bufB) ]_vars

\* C10 witness: the run ended with a Result the kernel wrote.
C10_Witness ==
    /\ pc = "done"
    /\ \E i \in Indices : bufResult[i] # 0
====
